---- MODULE Spec2Model ----
(***************************************************************************)
(* OOAD assistant: the SQLite store of database_helper.py (documents,      *)
(* document_analysis, queries) and the Streamlit session of app.py that    *)
(* drives it.  Python strings are sequences of one-character strings, so   *)
(* that strip(), lower(), split('.') and startswith() are computed.        *)
(***************************************************************************)
EXTENDS Integers, Sequences, FiniteSets, TLC

VARIABLES
    documents,          \* table documents: set of rows
    document_analysis,  \* table document_analysis: set of rows
    queries,            \* table queries: set of rows
    seq_documents,      \* AUTOINCREMENT high-water mark of documents.id
    seq_analysis,       \* AUTOINCREMENT high-water mark of document_analysis.id
    seq_queries,        \* AUTOINCREMENT high-water mark of queries.id
    now,                \* CURRENT_TIMESTAMP (one-second resolution)
    ret,                \* the last call or widget event, its inputs and its outcome
    doc_content,        \* st.session_state.doc_content
    doc_type,           \* st.session_state.doc_type
    file_name,          \* st.session_state.file_name
    current_doc_id,     \* st.session_state.current_doc_id
    delete_document,    \* st.session_state.delete_document
    delete_query,       \* st.session_state.delete_query
    pc,                 \* "idle": the script waits for a widget event; "rerun": st.rerun() was called
    uploaded_file,      \* the file held by the st.file_uploader widget
    screen,             \* what the last complete script run rendered
    tmp_files           \* the temporary files (their paths) that exist on disk

store == <<documents, document_analysis, queries, seq_documents, seq_analysis, seq_queries>>
session == <<doc_content, doc_type, file_name, current_doc_id, delete_document, delete_query>>
vars == <<documents, document_analysis, queries, seq_documents, seq_analysis, seq_queries,
          now, ret, doc_content, doc_type, file_name, current_doc_id, delete_document,
          delete_query, pc, uploaded_file, screen, tmp_files>>

----------------------------------------------------------------------------
(* Bounds of the model *)

MaxDocs == 2        \* save_document calls made directly
MaxAnalyses == 1    \* document_analysis rows ever inserted
MaxQueries == 2     \* save_query calls made directly
MaxUploads == 2     \* documents uploaded in the session
MaxAnswers == 1     \* questions answered in the session
MaxTime == 1        \* seconds the clock may advance
MaxLimit == 3       \* largest LIMIT passed to a get_recent_* call made directly
MaxReplyLen == 3    \* longest reply enumerated for the classification prompt
MaxTmp == 2         \* temporary file names the system can hand out

----------------------------------------------------------------------------
(* Python values *)

\* None where an integer id is expected; AUTOINCREMENT ids start at 1
NoneId == 0
\* None where a str is expected (no Python string is this sequence: its one
\* element is not a character)
NoneStr == <<"None">>
\* None where document content (str or bytes) is expected
NoneContent == [kind |-> "none", val |-> <<>>]

Str(s) == [kind |-> "str", val |-> s]
Bytes(b) == [kind |-> "bytes", val |-> b]

Min(a, b) == IF a <= b THEN a ELSE b

UpperCase == <<"A","B","C","D","E","F","G","H","I","J","K","L","M",
               "N","O","P","Q","R","S","T","U","V","W","X","Y","Z">>
LowerCase == <<"a","b","c","d","e","f","g","h","i","j","k","l","m",
               "n","o","p","q","r","s","t","u","v","w","x","y","z">>
Whitespace == {" ", "\n", "\t"}

\* str.lower() on one character
LowerChar(c) ==
    IF \E i \in 1..Len(UpperCase) : UpperCase[i] = c
    THEN LowerCase[CHOOSE i \in 1..Len(UpperCase) : UpperCase[i] = c]
    ELSE c

\* str.lower()
Lower(s) == [i \in 1..Len(s) |-> LowerChar(s[i])]

\* str.strip()
Strip(s) ==
    IF \A i \in 1..Len(s) : s[i] \in Whitespace THEN <<>>
    ELSE LET first == CHOOSE i \in 1..Len(s) :
                          /\ s[i] \notin Whitespace
                          /\ \A j \in 1..(i-1) : s[j] \in Whitespace
             last  == CHOOSE i \in 1..Len(s) :
                          /\ s[i] \notin Whitespace
                          /\ \A j \in (i+1)..Len(s) : s[j] \in Whitespace
         IN SubSeq(s, first, last)

\* str.startswith(prefix)
StartsWith(s, prefix) ==
    /\ Len(s) >= Len(prefix)
    /\ SubSeq(s, 1, Len(prefix)) = prefix

\* name.split('.')[-1]: what follows the last dot, the whole name when it has none
SplitLast(name) ==
    IF \E i \in 1..Len(name) : name[i] = "."
    THEN LET k == CHOOSE i \in 1..Len(name) :
                      /\ name[i] = "."
                      /\ \A j \in (i+1)..Len(name) : name[j] # "."
         IN SubSeq(name, k + 1, Len(name))
    ELSE name

\* Python truthiness of an Optional[str]: None and "" are falsy
Truthy(s) == s # NoneStr /\ s # <<>>

ErrorPrefix == <<"E","r","r","o","r">>
concept == <<"c","o","n","c","e","p","t">>
code == <<"c","o","d","e">>
design == <<"d","e","s","i","g","n">>
doc_analysis == <<"d","o","c","u","m","e","n","t","_","a","n","a","l","y","s","i","s">>
initial == <<"i","n","i","t","i","a","l">>
txt == <<"t","x","t">>
png == <<"p","n","g">>

----------------------------------------------------------------------------
(* DatabaseManager: the tables and the SQL each method runs.  Every method   *)
(* runs inside "with self.get_connection() as conn", one transaction that is *)
(* committed when the block ends, so each method is one atomic step.         *)

\* SQL "column = ?": never true when either side is NULL
SqlEq(col, v) == col # NoneId /\ v # NoneId /\ col = v

\* INSERT INTO documents (...) VALUES (?, ?, ?, CURRENT_TIMESTAMP, CURRENT_TIMESTAMP)
DocumentRow(id, filename, file_type, content, t) ==
    [id |-> id, filename |-> filename, file_type |-> file_type, content |-> content,
     upload_date |-> t, last_accessed |-> t]

\* INSERT INTO document_analysis (document_id, analysis_type, analysis_content)
AnalysisRow(id, document_id, analysis_type, analysis_content, t) ==
    [id |-> id, document_id |-> document_id, analysis_type |-> analysis_type,
     analysis_content |-> analysis_content, created_at |-> t]

QueryRowSwapped(id, document_id, query_text, response_text, agent_type, t) ==
    [id |-> id, document_id |-> id, query_text |-> query_text,
     response_text |-> response_text, agent_type |-> agent_type, created_at |-> t]
\* INSERT INTO queries (document_id, query_text, response_text, agent_type)
QueryRow(id, document_id, query_text, response_text, agent_type, t) ==
    [id |-> id, document_id |-> document_id, query_text |-> query_text,
     response_text |-> response_text, agent_type |-> agent_type, created_at |-> t]

\* SELECT ... FROM documents WHERE id = ?  (id is the primary key)
DocumentWhereId(docs, id) == {d \in docs : SqlEq(d.id, id)}

TouchNothing(docs, id, t) == docs
\* UPDATE documents SET last_accessed = CURRENT_TIMESTAMP WHERE id = ?
TouchDocument(docs, id, t) ==
    {IF SqlEq(d.id, id) THEN [d EXCEPT !.last_accessed = t] ELSE d : d \in docs}

\* get_document: the tables after the call
GetDocumentEffect(docs, id, t) ==
    IF DocumentWhereId(docs, id) # {} THEN TouchDocument(docs, id, t) ELSE docs

\* SELECT analysis_content ... WHERE document_id = ? AND analysis_type = ?
\* ORDER BY created_at DESC LIMIT 1: the contents the call may return (rows
\* with equal created_at come in no defined order); {NoneStr} when no row matches
GetAnalysis(rows, document_id, analysis_type) ==
    LET match == {a \in rows : SqlEq(a.document_id, document_id)
                                  /\ a.analysis_type = analysis_type}
    IN IF match = {} THEN {NoneStr}
       ELSE {a.analysis_content : a \in {x \in match :
                                      \A y \in match : y.created_at <= x.created_at}}

\* DELETE FROM document_analysis WHERE document_id = ?
DeleteAnalysesOf(rows, document_id) == {a \in rows : ~SqlEq(a.document_id, document_id)}

\* DELETE FROM queries WHERE document_id = ?
DeleteQueriesOf(rows, document_id) == {q \in rows : ~SqlEq(q.document_id, document_id)}

\* DELETE FROM documents WHERE id = ?
DeleteDocumentRow(docs, id) == {d \in docs : ~SqlEq(d.id, id)}

\* cursor.rowcount after each of the three DELETE statements of delete_document
DeleteRowcounts(id) ==
    << Cardinality(document_analysis \ DeleteAnalysesOf(document_analysis, id)),
       Cardinality(queries \ DeleteQueriesOf(queries, id)),
       Cardinality(documents \ DeleteDocumentRow(documents, id)) >>

DeleteDocumentResultAny(id) == DeleteRowcounts(id)[1] + DeleteRowcounts(id)[2] + DeleteRowcounts(id)[3] > 0
\* return cursor.rowcount > 0  (the cursor's last statement deleted from documents)
DeleteDocumentResult(id) == DeleteRowcounts(id)[3] > 0

\* DELETE FROM queries WHERE id = ?
DeleteQueryRow(rows, id) == {q \in rows : ~SqlEq(q.id, id)}

MaxOf(S) == CHOOSE x \in S : \A y \in S : y <= x
MinOf(S) == CHOOSE x \in S : \A y \in S : x <= y

RECURSIVE OrderByAsc(_, _)
OrderByAsc(rows, key) ==
    IF rows = {} THEN {<<>>}
    ELSE UNION {{<<r>> \o rest : rest \in OrderByAsc(rows \ {r}, key)} :
                r \in {x \in rows : x[key] = MinOf({y[key] : y \in rows})}}

RECURSIVE OrderByDesc(_, _)
\* ORDER BY key DESC: every order the engine may produce (rows of equal key
\* come in no defined order)
OrderByDesc(rows, key) ==
    IF rows = {} THEN {<<>>}
    ELSE UNION {{<<r>> \o rest : rest \in OrderByDesc(rows \ {r}, key)} :
                r \in {x \in rows : x[key] = MaxOf({y[key] : y \in rows})}}

\* LIMIT n, n >= 0
Limit(rows, n) == SubSeq(rows, 1, Min(n, Len(rows)))

\* the columns get_recent_documents selects
DocumentColumns(d) ==
    [id |-> d.id, filename |-> d.filename, file_type |-> d.file_type,
     upload_date |-> d.upload_date, last_accessed |-> d.last_accessed]

\* the columns get_recent_queries selects
QueryColumns(q) ==
    [id |-> q.id, query_text |-> q.query_text, response_text |-> q.response_text,
     agent_type |-> q.agent_type, created_at |-> q.created_at]

RecentDocumentsAsc(docs, n) ==
    {[i \in 1..Len(Limit(o, n)) |-> DocumentColumns(Limit(o, n)[i])] :
        o \in OrderByAsc(docs, "last_accessed")}
\* SELECT id, filename, file_type, upload_date, last_accessed
\* FROM documents ORDER BY last_accessed DESC LIMIT ?  : the possible results
RecentDocuments(docs, n) ==
    {[i \in 1..Len(Limit(o, n)) |-> DocumentColumns(Limit(o, n)[i])] :
        o \in OrderByDesc(docs, "last_accessed")}

RecentQueriesUnfiltered(rows, document_id, n) ==
    {[i \in 1..Len(Limit(o, n)) |-> QueryColumns(Limit(o, n)[i])] :
        o \in OrderByDesc(rows, "created_at")}
\* SELECT ... FROM queries [WHERE document_id = ?] ORDER BY created_at DESC LIMIT ?
\* "if document_id:" takes the filtered branch for a truthy id only
RecentQueries(rows, document_id, n) ==
    LET from == IF document_id # NoneId
                THEN {q \in rows : SqlEq(q.document_id, document_id)}
                ELSE rows
    IN {[i \in 1..Len(Limit(o, n)) |-> QueryColumns(Limit(o, n)[i])] :
           o \in OrderByDesc(from, "created_at")}

DefaultLimit == 5

----------------------------------------------------------------------------
(* Inputs *)

hi == <<"h","i">>
a_txt == <<"a",".","t","x","t">>
b_PNG == <<"b",".","P","N","G">>
e_txt == <<"e",".","t","x","t">>
c_txt == <<"c",".","t","x","t">>
d_exe == <<"d",".","e","x","e">>
f_jpg == <<"f",".","j","p","g">>
PngBytes == <<"P","N","G">>
question == <<"q","?">>

NoRet == [op |-> "none", arg |-> <<>>, value |-> FALSE]

\* an uploaded file: its name and what decoding its bytes gives (content, or
\* raises: a UnicodeDecodeError, a corrupt image, ...)
File(name, decoded) == [name |-> name, decoded |-> decoded]
Raises == [kind |-> "raise", val |-> <<>>]
NoFile == File(NoneStr, NoneContent)

\* unified_query_interface as rendered: the routed agent (st.info), the answer
\* (display_response) and the error (st.error)
QueryScreen(agent, answer, error) ==
    [view |-> "query", doc |-> NoneId, calls |-> 0, analysis |-> NoneStr,
     agent |-> agent, answer |-> answer, error |-> error]

\* document_analyzer_agent as rendered: the document analysed, the gateway
\* calls made for its initial analysis, the analysis and the answer shown
DocumentScreen(doc, calls, analysis, answer) ==
    [view |-> "document", doc |-> doc, calls |-> calls, analysis |-> analysis,
     agent |-> NoneStr, answer |-> answer, error |-> NoneStr]

Init ==
    /\ documents = {}
    /\ document_analysis = {}
    /\ queries = {}
    /\ seq_documents = 0
    /\ seq_analysis = 0
    /\ seq_queries = 0
    /\ now = 0
    /\ ret = NoRet
    /\ doc_content = NoneContent
    /\ doc_type = NoneStr
    /\ file_name = NoneStr
    /\ current_doc_id = NoneId
    /\ delete_document = NoneId
    /\ delete_query = NoneId
    /\ pc = "idle"
    /\ uploaded_file = NoFile
    /\ screen = QueryScreen(NoneStr, NoneStr, NoneStr)
    /\ tmp_files = {}

\* a second passes
Tick ==
    /\ now < MaxTime
    /\ now' = now + 1
    /\ UNCHANGED <<store, ret, session, pc, uploaded_file, screen, tmp_files>>

----------------------------------------------------------------------------
(* The DatabaseManager methods, each called directly *)

DocIds == 1..MaxDocs
QueryIds == 1..MaxQueries

SaveDocumentCall(filename, file_type, content) ==
    /\ seq_documents < MaxDocs
    /\ seq_documents' = seq_documents + 1
    /\ documents' = documents \cup
           {DocumentRow(seq_documents + 1, filename, file_type, content, now)}
    /\ ret' = [op |-> "save_document", arg |-> <<filename>>, value |-> seq_documents + 1]
    /\ UNCHANGED <<document_analysis, queries, seq_analysis, seq_queries>>

GetDocumentCall(id) ==
    /\ documents' = GetDocumentEffect(documents, id, now)
    /\ ret' = [op |-> "get_document", arg |-> <<id>>, value |-> DocumentWhereId(documents, id)]
    /\ UNCHANGED <<document_analysis, queries, seq_documents, seq_analysis, seq_queries>>

SaveAnalysisCall(document_id, analysis_type, analysis_content) ==
    /\ seq_analysis < MaxAnalyses
    /\ seq_analysis' = seq_analysis + 1
    /\ document_analysis' = document_analysis \cup
           {AnalysisRow(seq_analysis + 1, document_id, analysis_type, analysis_content, now)}
    /\ ret' = [op |-> "save_analysis", arg |-> <<document_id>>, value |-> seq_analysis + 1]
    /\ UNCHANGED <<documents, queries, seq_documents, seq_queries>>

GetAnalysisCall(document_id, analysis_type) ==
    /\ \E r \in GetAnalysis(document_analysis, document_id, analysis_type) :
           ret' = [op |-> "get_analysis", arg |-> <<document_id>>, value |-> r]
    /\ UNCHANGED store

SaveQueryCall(document_id, query_text, response_text, agent_type) ==
    /\ seq_queries < MaxQueries
    /\ seq_queries' = seq_queries + 1
    /\ queries' = queries \cup
           {QueryRow(seq_queries + 1, document_id, query_text, response_text, agent_type, now)}
    /\ ret' = [op |-> "save_query", arg |-> <<document_id>>, value |-> seq_queries + 1]
    /\ UNCHANGED <<documents, document_analysis, seq_documents, seq_analysis>>

DeleteQueryCall(id) ==
    /\ queries' = DeleteQueryRow(queries, id)
    /\ ret' = [op |-> "delete_query", arg |-> <<id>>,
               value |-> Cardinality(queries \ DeleteQueryRow(queries, id)) > 0]
    /\ UNCHANGED <<documents, document_analysis, seq_documents, seq_analysis, seq_queries>>

GetRecentQueriesCall(document_id, n) ==
    /\ \E r \in RecentQueries(queries, document_id, n) :
           ret' = [op |-> "get_recent_queries", arg |-> <<document_id, n>>, value |-> r]
    /\ UNCHANGED store

GetRecentDocumentsCall(n) ==
    /\ \E r \in RecentDocuments(documents, n) :
           ret' = [op |-> "get_recent_documents", arg |-> <<n>>, value |-> r]
    /\ UNCHANGED store

\* the three DELETE statements run in one transaction, committed together
DeleteDocumentCall(id) ==
    /\ document_analysis' = DeleteAnalysesOf(document_analysis, id)
    /\ queries' = DeleteQueriesOf(queries, id)
    /\ documents' = DeleteDocumentRow(documents, id)
    /\ ret' = [op |-> "delete_document", arg |-> <<id>>, value |-> DeleteDocumentResult(id),
               rowcounts |-> DeleteRowcounts(id)]
    /\ UNCHANGED <<seq_documents, seq_analysis, seq_queries>>

SaveDocumentStep ==
    /\ SaveDocumentCall(a_txt, txt, Str(hi))
    /\ UNCHANGED <<now, tmp_files, session, pc, uploaded_file, screen>>
GetDocumentStep ==
    /\ \E id \in DocIds : GetDocumentCall(id)
    /\ UNCHANGED <<now, tmp_files, session, pc, uploaded_file, screen>>
SaveAnalysisStep ==
    /\ \E id \in DocIds : SaveAnalysisCall(id, initial, hi)
    /\ UNCHANGED <<now, tmp_files, session, pc, uploaded_file, screen>>
GetAnalysisStep ==
    /\ \E id \in DocIds : GetAnalysisCall(id, initial)
    /\ UNCHANGED <<now, tmp_files, session, pc, uploaded_file, screen>>
SaveQueryStep ==
    /\ \E id \in DocIds \cup {NoneId} : SaveQueryCall(id, question, hi, concept)
    /\ UNCHANGED <<now, tmp_files, session, pc, uploaded_file, screen>>
DeleteQueryStep ==
    /\ \E id \in QueryIds : DeleteQueryCall(id)
    /\ UNCHANGED <<now, tmp_files, session, pc, uploaded_file, screen>>
GetRecentQueriesStep ==
    /\ \E id \in DocIds \cup {NoneId}, n \in 0..MaxLimit : GetRecentQueriesCall(id, n)
    /\ UNCHANGED <<now, tmp_files, session, pc, uploaded_file, screen>>
GetRecentDocumentsStep ==
    /\ \E n \in 0..MaxLimit : GetRecentDocumentsCall(n)
    /\ UNCHANGED <<now, tmp_files, session, pc, uploaded_file, screen>>
DeleteDocumentStep ==
    /\ \E id \in DocIds : DeleteDocumentCall(id)
    /\ UNCHANGED <<now, tmp_files, session, pc, uploaded_file, screen>>

CascadeNext ==
    \/ SaveDocumentStep
    \/ SaveAnalysisStep
    \/ GetAnalysisStep
    \/ SaveQueryStep
    \/ DeleteQueryStep
    \/ DeleteDocumentStep

\* any sequence of the calls that insert and delete rows (no call here reads a timestamp)
SpecCascade == Init /\ [][CascadeNext]_vars

DocumentsNext ==
    \/ Tick
    \/ SaveDocumentStep
    \/ GetDocumentStep
    \/ GetRecentDocumentsStep
    \/ DeleteDocumentStep

\* any sequence of the calls that read or write the documents table, as time passes
SpecDocuments == Init /\ [][DocumentsNext]_vars

QueriesNext ==
    \/ Tick
    \/ SaveQueryStep
    \/ DeleteQueryStep
    \/ GetRecentQueriesStep
    \/ DeleteDocumentStep

\* any sequence of the calls that read or write the queries table, as time passes
SpecQueries == Init /\ [][QueriesNext]_vars

----------------------------------------------------------------------------
(* app.py: decoding an upload, the Model Gateway and the classifier *)

pdf == <<"p","d","f">>
docx == <<"d","o","c","x">>
jpg == <<"j","p","g">>
jpeg == <<"j","p","e","g">>

\* the messages are cut after their first words
ErrReadingFile == ErrorPrefix \o <<" ","r","e","a","d","i","n","g">>
ErrProcessingImage == ErrorPrefix \o <<" ","p","r","o","c","e","s","s","i","n","g">>
ErrUnsupported == ErrorPrefix \o <<":"," ","U","n","s","u","p","p","o","r","t","e","d">>
ErrProcessingFile == ErrorPrefix \o <<" ","p","r","o","c","e","s","s","i","n","g"," ","f","i","l","e">>
ErrGemini == ErrorPrefix \o <<" ","c","o","m","m","u","n","i","c","a","t","i","n","g">>

\* read_image_file: the re-encoded PNG bytes, or the error string
ReadImageFile(f) ==
    IF f.decoded = Raises THEN Str(ErrProcessingImage) ELSE f.decoded

\* read_file_content: the decoded content, or a string that begins with "Error"
ReadFileContent(f, file_type) ==
    IF file_type \in {txt, pdf, docx}
    THEN IF f.decoded = Raises THEN Str(ErrReadingFile) ELSE f.decoded
    ELSE IF file_type \in {jpg, jpeg, png}
    THEN ReadImageFile(f)
    ELSE Str(ErrUnsupported)

IsErrorNever(content) == FALSE
\* isinstance(content, str) and content.startswith("Error")
IsError(content) == content.kind = "str" /\ StartsWith(content.val, ErrorPrefix)

\* uploaded_file.name.split('.')[-1].lower()
FileType(f) == Lower(SplitLast(f.name))

\* process_uploaded_file: what it returns (document_id is None when nothing is saved)
ProcessUploadedFile(f) ==
    LET file_type == FileType(f)
        content == ReadFileContent(f, file_type)
    IN IF IsError(content)
       THEN [content |-> content, file_type |-> NoneStr, document_id |-> NoneId]
       ELSE [content |-> content, file_type |-> file_type, document_id |-> seq_documents + 1]

GeminiSuccess(text) == [status |-> "success", content |-> text]
GeminiError == [status |-> "error", content |-> ErrGemini]

\* the texts the remote model is taken to answer to each of the four prompts:
\* the classification prompt of analyze_query, the agent prompt of
\* get_agent_prompt, the "Analyze this document" prompt, the document question
ModelTexts(prompt) ==
    CASE prompt = "classify" -> { <<" ","C","o","d","e","\n">>, <<"U","M","L">> }
      [] prompt = "analyze"  -> { hi }
      [] OTHER               -> { hi }

SucceededAlways(response) == TRUE
\* response['status'] == 'success', the test that guards each save_query
Succeeded(response) == response.status = "success"

\* query_gemini_api: the results a call may have
QueryGeminiApi(prompt) == {GeminiSuccess(t) : t \in ModelTexts(prompt)} \cup {GeminiError}

AnalyzeQueryNoLower(response) ==
    IF response.status = "success" THEN Strip(response.content) ELSE concept
\* analyze_query, given the gateway's result for the classification prompt
AnalyzeQuery(response) ==
    IF response.status = "success" THEN Lower(Strip(response.content)) ELSE concept

\* "Get or perform initial analysis": given what get_analysis returned and the
\* gateway's result should it be called, the gateway calls made, whether
\* save_analysis is called and the analysis rendered by st.markdown
GetOrCreate(analysis, response) ==
    [calls |-> IF Truthy(analysis) THEN 0 ELSE 1,
     save  |-> ~Truthy(analysis) /\ response.status = "success",
     shown |-> IF Truthy(analysis) THEN analysis
               ELSE IF response.status = "success" THEN response.content ELSE analysis]

----------------------------------------------------------------------------
(* app.py: one run of main() per step.  A widget event runs the script with *)
(* that event; st.rerun() ends the run and asks for another one (pc).       *)

DocumentMode == doc_content # NoneContent

UploadedFiles ==
    { File(a_txt, Str(hi)),                       \* a text file
      File(b_PNG, Bytes(PngBytes)),               \* an image
      File(e_txt, Str(ErrorPrefix \o <<"s">>)),   \* a text file that reads "Errors"
      File(c_txt, Raises),                        \* bytes that are not UTF-8
      File(f_jpg, Raises),                        \* bytes that are not an image
      File(d_exe, Bytes(PngBytes)) }              \* an extension read_file_content rejects

QueryTexts == {question}

\* lines 395-406: the upload section, run whenever the uploader holds a file
UploadSection(f) ==
    LET r == ProcessUploadedFile(f)
    IN /\ IF IsError(r.content)
          THEN /\ screen' = QueryScreen(NoneStr, NoneStr, r.content.val)
               /\ pc' = "idle"
               /\ UNCHANGED <<documents, seq_documents, doc_content, doc_type,
                              file_name, current_doc_id>>
          ELSE /\ seq_documents < MaxUploads
               /\ seq_documents' = seq_documents + 1
               /\ documents' = documents \cup
                      {DocumentRow(seq_documents + 1, f.name, r.file_type, r.content, now)}
               /\ doc_content' = r.content
               /\ doc_type' = r.file_type
               /\ file_name' = f.name
               /\ current_doc_id' = r.document_id
               /\ pc' = "rerun"
               /\ UNCHANGED screen
       /\ ret' = [op |-> "upload", arg |-> <<>>, value |-> r.document_id]
       /\ UNCHANGED <<document_analysis, queries, seq_analysis, seq_queries,
                      delete_document, delete_query, now, tmp_files>>

\* the user puts a file into the uploader
Upload(f) ==
    /\ pc = "idle"
    /\ ~DocumentMode
    /\ uploaded_file = NoFile
    /\ uploaded_file' = f
    /\ UploadSection(f)

\* the user removes the file from the uploader
ClearUpload ==
    /\ pc = "idle"
    /\ ~DocumentMode
    /\ uploaded_file # NoFile
    /\ uploaded_file' = NoFile
    /\ pc' = "rerun"
    /\ ret' = [op |-> "clear_upload", arg |-> <<>>, value |-> FALSE]
    /\ UNCHANGED <<store, now, tmp_files, session, screen>>

\* lines 323-335: the pending document deletion
HandleDeleteDocument ==
    /\ document_analysis' = DeleteAnalysesOf(document_analysis, delete_document)
    /\ queries' = DeleteQueriesOf(queries, delete_document)
    /\ documents' = DeleteDocumentRow(documents, delete_document)
    /\ IF DeleteDocumentResult(delete_document) /\ delete_document = current_doc_id
       THEN /\ doc_content' = NoneContent
            /\ doc_type' = NoneStr
            /\ file_name' = NoneStr
            /\ current_doc_id' = NoneId
       ELSE UNCHANGED <<doc_content, doc_type, file_name, current_doc_id>>
    /\ delete_document' = NoneId
    /\ pc' = "rerun"
    /\ ret' = [op |-> "delete_document", arg |-> <<delete_document>>,
               value |-> DeleteDocumentResult(delete_document),
               rowcounts |-> DeleteRowcounts(delete_document)]
    /\ UNCHANGED <<seq_documents, seq_analysis, seq_queries, delete_query,
                   uploaded_file, screen, now, tmp_files>>

\* lines 380-387: the pending query deletion
HandleDeleteQuery ==
    /\ queries' = DeleteQueryRow(queries, delete_query)
    /\ delete_query' = NoneId
    /\ pc' = "rerun"
    /\ ret' = [op |-> "delete_query", arg |-> <<delete_query>>,
               value |-> Cardinality(queries \ DeleteQueryRow(queries, delete_query)) > 0]
    /\ UNCHANGED <<documents, document_analysis, seq_documents, seq_analysis, seq_queries,
                   doc_content, doc_type, file_name, current_doc_id, delete_document,
                   uploaded_file, screen, now, tmp_files>>

\* main() in Query mode with no button pressed: unified_query_interface
RenderQuery ==
    /\ pc \in {"idle", "rerun"}
    /\ ~DocumentMode
    /\ IF delete_document # NoneId
       THEN HandleDeleteDocument
       ELSE IF queries # {} /\ delete_query # NoneId
       THEN HandleDeleteQuery
       ELSE IF uploaded_file # NoFile
       THEN UploadSection(uploaded_file) /\ UNCHANGED uploaded_file
       ELSE /\ screen' = QueryScreen(NoneStr, NoneStr, NoneStr)
            /\ pc' = "idle"
            /\ ret' = [op |-> "render", arg |-> <<>>, value |-> FALSE]
            /\ UNCHANGED <<store, now, tmp_files, session, uploaded_file>>

ClickDocumentNoId(row) ==
    /\ pc = "idle"
    /\ ~DocumentMode
    /\ \E r \in RecentDocuments(documents, DefaultLimit) :
           \E i \in 1..Len(r) : r[i] = row
    /\ \E d \in DocumentWhereId(documents, row.id) : doc_content' = d.content
    /\ documents' = GetDocumentEffect(documents, row.id, now)
    /\ doc_type' = row.file_type
    /\ file_name' = row.filename
    /\ pc' = "rerun"
    /\ ret' = [op |-> "click_document", arg |-> <<row.id>>, value |-> FALSE]
    /\ UNCHANGED <<document_analysis, queries, seq_documents, seq_analysis, seq_queries,
                   current_doc_id, delete_document, delete_query, uploaded_file, screen,
                   now, tmp_files>>
\* a recent document's button is pressed (lines 310-315)
ClickDocument(row) ==
    /\ pc = "idle"
    /\ ~DocumentMode
    /\ \E r \in RecentDocuments(documents, DefaultLimit) :
           \E i \in 1..Len(r) : r[i] = row
    /\ \E d \in DocumentWhereId(documents, row.id) : doc_content' = d.content
    /\ documents' = GetDocumentEffect(documents, row.id, now)
    /\ doc_type' = row.file_type
    /\ file_name' = row.filename
    /\ current_doc_id' = row.id
    /\ pc' = "rerun"
    /\ ret' = [op |-> "click_document", arg |-> <<row.id>>, value |-> FALSE]
    /\ UNCHANGED <<document_analysis, queries, seq_documents, seq_analysis, seq_queries,
                   delete_document, delete_query, uploaded_file, screen, now, tmp_files>>

\* a recent document's delete button is pressed (lines 319-321)
ClickDeleteDocument(row) ==
    /\ pc = "idle"
    /\ ~DocumentMode
    /\ \E r \in RecentDocuments(documents, DefaultLimit) :
           \E i \in 1..Len(r) : r[i] = row
    /\ delete_document' = row.id
    /\ pc' = "rerun"
    /\ ret' = [op |-> "click_delete_document", arg |-> <<row.id>>, value |-> FALSE]
    /\ UNCHANGED <<store, now, tmp_files, doc_content, doc_type, file_name, current_doc_id,
                   delete_query, uploaded_file, screen>>

\* a recent question's delete button is pressed (lines 376-378)
ClickDeleteQuery(row) ==
    /\ pc = "idle"
    /\ ~DocumentMode
    /\ \E r \in RecentQueries(queries, NoneId, DefaultLimit) :
           \E i \in 1..Len(r) : r[i] = row
    /\ delete_query' = row.id
    /\ pc' = "rerun"
    /\ ret' = [op |-> "click_delete_query", arg |-> <<row.id>>, value |-> FALSE]
    /\ UNCHANGED <<store, now, tmp_files, doc_content, doc_type, file_name, current_doc_id,
                   delete_document, uploaded_file, screen>>

\* "Get Answer" is pressed in Query mode (lines 414-427); the query section is
\* reached only when the uploader holds no file (line 406)
AskQuery(query, classification, response) ==
    /\ pc = "idle"
    /\ ~DocumentMode
    /\ uploaded_file = NoFile
    /\ LET agent_type == AnalyzeQuery(classification)
       IN /\ IF Succeeded(response)
             THEN /\ seq_queries < MaxAnswers
                  /\ seq_queries' = seq_queries + 1
                  /\ queries' = queries \cup
                         {QueryRow(seq_queries + 1, NoneId, query, response.content,
                                   agent_type, now)}
                  /\ screen' = QueryScreen(agent_type, response.content, NoneStr)
             ELSE /\ UNCHANGED <<queries, seq_queries>>
                  /\ screen' = QueryScreen(agent_type, NoneStr, response.content)
          /\ ret' = [op |-> "ask_query", arg |-> <<query, response>>,
                     value |-> Succeeded(response)]
    /\ UNCHANGED <<documents, document_analysis, seq_documents, seq_analysis, now, tmp_files,
                   session, pc, uploaded_file>>

ClickBackKeepsId ==
    /\ pc = "idle"
    /\ DocumentMode
    /\ doc_content' = NoneContent
    /\ doc_type' = NoneStr
    /\ file_name' = NoneStr
    /\ pc' = "rerun"
    /\ ret' = [op |-> "back", arg |-> <<>>, value |-> FALSE]
    /\ UNCHANGED <<store, now, tmp_files, current_doc_id, delete_document, delete_query,
                   uploaded_file, screen>>
\* the back button is pressed (lines 227-232)
ClickBack ==
    /\ pc = "idle"
    /\ DocumentMode
    /\ doc_content' = NoneContent
    /\ doc_type' = NoneStr
    /\ file_name' = NoneStr
    /\ current_doc_id' = NoneId
    /\ pc' = "rerun"
    /\ ret' = [op |-> "back", arg |-> <<>>, value |-> FALSE]
    /\ UNCHANGED <<store, now, tmp_files, delete_document, delete_query, uploaded_file, screen>>

\* lines 235-261: the document's info and its initial analysis; `response` is
\* the gateway's result should query_gemini_api be called
AnalyzerHead(response, answer) ==
    LET doc_id == current_doc_id
    IN IF doc_id # NoneId /\ DocumentWhereId(documents, doc_id) # {}
       THEN /\ documents' = GetDocumentEffect(documents, doc_id, now)
            /\ \E stored \in GetAnalysis(document_analysis, doc_id, initial) :
                  LET g == GetOrCreate(stored, response)
                  IN /\ IF g.save
                        THEN /\ seq_analysis < MaxAnalyses
                             /\ seq_analysis' = seq_analysis + 1
                             /\ document_analysis' = document_analysis \cup
                                    {AnalysisRow(seq_analysis + 1, doc_id, initial,
                                                 g.shown, now)}
                        ELSE UNCHANGED <<document_analysis, seq_analysis>>
                     /\ screen' = DocumentScreen(doc_id, g.calls, g.shown, answer)
       ELSE /\ screen' = DocumentScreen(NoneId, 0, NoneStr, NoneStr)
            /\ UNCHANGED <<documents, document_analysis, seq_analysis>>

\* main() in Document mode with no button pressed: document_analyzer_agent
\* (the uploader is not part of this page, so its file is dropped)
RenderDocument(response) ==
    /\ pc \in {"idle", "rerun"}
    /\ DocumentMode
    /\ AnalyzerHead(response, NoneStr)
    /\ uploaded_file' = NoFile
    /\ pc' = "idle"
    /\ ret' = [op |-> "render_document", arg |-> <<>>, value |-> FALSE]
    /\ UNCHANGED <<queries, seq_documents, seq_queries, now, tmp_files, session>>

\* "Get Answer" is pressed in Document mode (lines 270-287); `response` is the
\* gateway's result for the initial analysis, `answer` its result for the question
AskDocument(query, response, answer) ==
    /\ pc = "idle"
    /\ DocumentMode
    /\ current_doc_id # NoneId
    /\ DocumentWhereId(documents, current_doc_id) # {}
    /\ AnalyzerHead(response, IF Succeeded(answer) THEN answer.content ELSE NoneStr)
    /\ IF Succeeded(answer)
       THEN /\ seq_queries < MaxAnswers
            /\ seq_queries' = seq_queries + 1
            /\ queries' = queries \cup
                   {QueryRow(seq_queries + 1, current_doc_id, query, answer.content,
                             doc_analysis, now)}
       ELSE UNCHANGED <<queries, seq_queries>>
    /\ ret' = [op |-> "ask_document", arg |-> <<query, answer>>, value |-> Succeeded(answer)]
    /\ UNCHANGED <<seq_documents, now, tmp_files, session, pc, uploaded_file>>

UploadStep == \E f \in UploadedFiles : Upload(f)
ClickDocumentStep == \E d \in documents : ClickDocument(DocumentColumns(d))
ClickDeleteDocumentStep == \E d \in documents : ClickDeleteDocument(DocumentColumns(d))
ClickDeleteQueryStep == \E q \in queries : ClickDeleteQuery(QueryColumns(q))
AskQueryStep ==
    \E q \in QueryTexts, c \in QueryGeminiApi("classify"), r \in QueryGeminiApi("agent") :
        AskQuery(q, c, r)
RenderDocumentStep == \E r \in QueryGeminiApi("analyze") : RenderDocument(r)
AskDocumentStep ==
    \E q \in QueryTexts, r \in QueryGeminiApi("analyze"), a \in QueryGeminiApi("document") :
        AskDocument(q, r, a)

Next ==
    \/ UploadStep
    \/ ClearUpload
    \/ RenderQuery
    \/ ClickDocumentStep
    \/ ClickDeleteDocumentStep
    \/ ClickDeleteQueryStep
    \/ AskQueryStep
    \/ ClickBack
    \/ RenderDocumentStep
    \/ AskDocumentStep

\* one session of the application over a store that starts empty
Spec == Init /\ [][Next]_vars

----------------------------------------------------------------------------
(* process_uploaded_file on its own, statement by statement, on a file     *)
(* system and a store that may fail.  (In the session above the call is    *)
(* one step, ProcessUploadedFile, and neither fails.)  The frame of the    *)
(* call is kept in ret: its argument, tmp_file_path, content, and the      *)
(* tuple it returns.                                                       *)

TmpNames == 1..MaxTmp
Running == [content |-> NoneContent, file_type |-> NoneStr, document_id |-> NoneId]

\* lines 102-104: the outer except
PufExcept == [content |-> Str(ErrProcessingFile), file_type |-> NoneStr, document_id |-> NoneId]

\* lines 77-84: the call, up to the creation of the temporary file
\* (delete=False) under a name that is not in use
PufCall(f) ==
    /\ pc = "idle"
    /\ IF f = NoFile
       THEN /\ ret' = [op |-> "process_uploaded_file", arg |-> <<f>>, value |-> Running,
                       path |-> NoneId, content |-> NoneContent]
            /\ UNCHANGED <<pc, tmp_files>>
       ELSE \E p \in TmpNames \ tmp_files :
               /\ tmp_files' = tmp_files \cup {p}
               /\ ret' = [op |-> "process_uploaded_file", arg |-> <<f>>, value |-> Running,
                          path |-> p, content |-> NoneContent]
               /\ pc' = "tmp_created"
    /\ UNCHANGED <<store, now, session, uploaded_file, screen>>

\* line 84: tmp_file.write(uploaded_file.getvalue()); when it raises, the with
\* block closes the file, which stays on disk, and the outer except returns
PufWrite(ok) ==
    /\ pc = "tmp_created"
    /\ IF ok
       THEN pc' = "written" /\ UNCHANGED ret
       ELSE pc' = "idle" /\ ret' = [ret EXCEPT !.value = PufExcept]
    /\ UNCHANGED <<store, now, session, uploaded_file, screen, tmp_files>>

\* line 87: read_file_content, which catches every exception
PufRead ==
    /\ pc = "written"
    /\ ret' = [ret EXCEPT !.content = ReadFileContent(ret.arg[1], FileType(ret.arg[1]))]
    /\ pc' = "read"
    /\ UNCHANGED <<store, now, session, uploaded_file, screen, tmp_files>>

\* lines 89-92: os.unlink(tmp_file_path); when it raises, a warning is logged
PufUnlink(ok) ==
    /\ pc = "read"
    /\ tmp_files' = IF ok THEN tmp_files \ {ret.path} ELSE tmp_files
    /\ pc' = "unlinked"
    /\ UNCHANGED <<store, now, ret, session, uploaded_file, screen>>

\* lines 94-100: the error string is returned, or the document is saved; when
\* save_document raises, its transaction is rolled back and the outer except returns
PufReturn(ok) ==
    /\ pc = "unlinked"
    /\ LET f == ret.arg[1]
       IN IF IsError(ret.content)
          THEN /\ ret' = [ret EXCEPT !.value = [content |-> ret.content, file_type |-> NoneStr,
                                                document_id |-> NoneId]]
               /\ UNCHANGED store
          ELSE IF ok
          THEN /\ seq_documents < MaxDocs
               /\ seq_documents' = seq_documents + 1
               /\ documents' = documents \cup
                      {DocumentRow(seq_documents + 1, f.name, FileType(f), ret.content, now)}
               /\ ret' = [ret EXCEPT !.value = [content |-> ret.content,
                                                file_type |-> FileType(f),
                                                document_id |-> seq_documents + 1]]
               /\ UNCHANGED <<document_analysis, queries, seq_analysis, seq_queries>>
          ELSE /\ ret' = [ret EXCEPT !.value = PufExcept]
               /\ UNCHANGED store
    /\ pc' = "idle"
    /\ UNCHANGED <<now, session, uploaded_file, screen, tmp_files>>

PufCallStep == \E f \in UploadedFiles \cup {NoFile} : PufCall(f)
PufWriteStep == \E ok \in BOOLEAN : PufWrite(ok)
PufUnlinkStep == \E ok \in BOOLEAN : PufUnlink(ok)
PufReturnStep == \E ok \in BOOLEAN : PufReturn(ok)

UploadNext ==
    \/ PufCallStep
    \/ PufWriteStep
    \/ PufRead
    \/ PufUnlinkStep
    \/ PufReturnStep

\* any sequence of calls of process_uploaded_file
SpecUpload == Init /\ [][UploadNext]_vars

----------------------------------------------------------------------------
(* analyze_query on its own *)

\* the classification prompt is answered: any text over ReplyAlphabet of at
\* most MaxReplyLen characters, one of the texts of ModelTexts, or an error
ReplyAlphabet == {" ", "\n", "C", "o"}
RECURSIVE TextsUpTo(_)
TextsUpTo(n) ==
    IF n = 0 THEN {<<>>}
    ELSE TextsUpTo(n - 1) \cup
         {Append(t, c) : t \in {x \in TextsUpTo(n - 1) : Len(x) = n - 1}, c \in ReplyAlphabet}

QueryGeminiStep ==
    /\ ret.op # "query_gemini_api"
    /\ \E r \in {GeminiSuccess(t) : t \in TextsUpTo(MaxReplyLen)}
                 \cup QueryGeminiApi("classify") \cup {GeminiSuccess(code)} :
           ret' = [op |-> "query_gemini_api", arg |-> <<>>, value |-> r]
    /\ UNCHANGED <<store, now, tmp_files, session, pc, uploaded_file, screen>>

\* analyze_query parses the gateway's result
AnalyzeQueryStep ==
    /\ ret.op = "query_gemini_api"
    /\ ret' = [op |-> "analyze_query", arg |-> <<ret.value>>, value |-> AnalyzeQuery(ret.value)]
    /\ UNCHANGED <<store, now, tmp_files, session, pc, uploaded_file, screen>>

ClassifyNext ==
    \/ QueryGeminiStep
    \/ AnalyzeQueryStep

\* analyze_query applied to every result of the gateway
SpecClassify == Init /\ [][ClassifyNext]_vars

----------------------------------------------------------------------------
(* Claims *)

RefsTo(rows, D) == {r \in rows : r.document_id = D}

\* C1: delete_document(D) leaves no document_analysis row and no queries row
\* with document_id = D, removes the documents row D together with them, and
\* returns true exactly when a documents row D existed just before the call
\* (dependent rows of a document that does not exist are removed as well, and
\* the result is then false).  No step removes a documents row and leaves a
\* row that references it.
C1_DeleteDocument ==
    [][/\ \A D \in DocIds :
          (ret'.op = "delete_document" /\ ret'.arg = <<D>>) =>
              /\ RefsTo(document_analysis', D) = {}
              /\ RefsTo(queries', D) = {}
              /\ ~\E d \in documents' : d.id = D
              /\ ret'.value = (\E d \in documents : d.id = D)
              /\ documents' = {d \in documents : d.id # D}
              /\ document_analysis' = document_analysis \ RefsTo(document_analysis, D)
              /\ queries' = queries \ RefsTo(queries, D)
       /\ \A d \in documents \ documents' :
              RefsTo(document_analysis', d.id) = {} /\ RefsTo(queries', d.id) = {}]_vars

\* C1 witness: a document that owned an analysis and a query was deleted with
\* result true, and another document's rows are still there
C1_Witness ==
    /\ ret.op = "delete_document"
    /\ ret.value = TRUE
    /\ ret.rowcounts[1] > 0
    /\ ret.rowcounts[2] > 0
    /\ documents # {}
    /\ queries # {}

\* C1, the other case: rows referencing a document that does not exist were
\* removed and the result was false
C1_WitnessOrphans ==
    /\ ret.op = "delete_document"
    /\ ret.value = FALSE
    /\ ret.rowcounts[1] + ret.rowcounts[2] > 0

\* C10: get_recent_documents(n), n >= 0, returns exactly min(n, number of
\* documents) rows of the documents table, sorted by last_accessed descending,
\* no omitted document has a later last_accessed than a returned one, and the
\* call changes no row.
C10_RecentDocuments ==
    [][ret'.op = "get_recent_documents" =>
          LET n == ret'.arg[1]
              r == ret'.value
              returned == {r[i].id : i \in 1..Len(r)}
          IN /\ Len(r) = Min(n, Cardinality(documents))
             /\ \A i \in 1..Len(r) : \E d \in documents :
                    /\ d.id = r[i].id
                    /\ d.last_accessed = r[i].last_accessed
                    /\ d.filename = r[i].filename
             /\ \A i, j \in 1..Len(r) : i # j => r[i].id # r[j].id
             /\ \A i, j \in 1..Len(r) : i < j => r[i].last_accessed >= r[j].last_accessed
             /\ \A d \in documents : d.id \notin returned =>
                    \A i \in 1..Len(r) : d.last_accessed <= r[i].last_accessed
             /\ UNCHANGED store]_vars

\* C10 witness: a limit smaller than the number of documents returned the
\* most recently accessed one and left out an older one
C10_Witness ==
    /\ ret.op = "get_recent_documents"
    /\ ret.arg[1] >= 1
    /\ Len(ret.value) = ret.arg[1]
    /\ Cardinality(documents) > ret.arg[1]
    /\ \E d \in documents : d.last_accessed < ret.value[Len(ret.value)].last_accessed


AgentCategories == {concept, code, design, doc_analysis}
SupportedTypes == {txt, pdf, docx, jpg, jpeg, png}
IsUpper(c) == \E i \in 1..Len(UpperCase) : UpperCase[i] = c
IsDocumentRender(op) == op \in {"render_document", "ask_document"}
IsAsk(op) == op \in {"ask_query", "ask_document"}

\* C2: two renderings in sequence of the Document Analyzer for the same
\* document make at most one gateway call for the initial analysis between
\* them and show the same analysis, whatever the gateway returns.
C2_AtMostOneCall ==
    [][(/\ IsDocumentRender(ret'.op)
        /\ screen.view = "document"
        /\ screen.doc # NoneId
        /\ screen'.doc = screen.doc) =>
           /\ screen.calls + screen'.calls <= 1
           /\ screen'.analysis = screen.analysis]_vars

\* C3: every queries row has an agent category in the fixed set
\* {concept, code, design, document_analysis}.
C3_AgentCategory == \A q \in queries : q.agent_type \in AgentCategories

\* C4: every queries row written with a non-null document_id references a
\* documents row that exists at the moment of the write.
C4_OwnerExists ==
    [][\A q \in queries' \ queries :
          q.document_id # NoneId =>
              /\ \E d \in documents : d.id = q.document_id
              /\ \E d \in documents' : d.id = q.document_id]_vars

\* C4 witness: after an upload was deleted, a question about the current
\* document was answered and saved under its id
C4_Witness ==
    /\ ret.op = "ask_document"
    /\ ret.value = TRUE
    /\ Cardinality(documents) < seq_documents
    /\ \E q \in queries : q.document_id = current_doc_id /\ q.id = seq_queries
    /\ \E d \in documents : d.id = current_doc_id

\* C5: analyze_query returns "concept" when the gateway's status is error, and
\* otherwise the gateway's content without its leading and trailing whitespace
\* and with every upper-case letter replaced by its lower-case one.
C5_AnalyzeQuery ==
    ret.op = "analyze_query" =>
        LET response == ret.arg[1]
            text == response.content
            out == ret.value
        IN IF response.status = "error"
           THEN out = concept
           ELSE \E i \in 1..(Len(text) + 1) :
                   /\ \A k \in 1..(i - 1) : text[k] \in Whitespace
                   /\ \A k \in (i + Len(out))..Len(text) : text[k] \in Whitespace
                   /\ i + Len(out) - 1 <= Len(text)
                   /\ out # <<>> => out[1] \notin Whitespace /\ out[Len(out)] \notin Whitespace
                   /\ \A k \in 1..Len(out) :
                          IF IsUpper(text[i + k - 1])
                          THEN \E j \in 1..Len(UpperCase) :
                                   UpperCase[j] = text[i + k - 1] /\ out[k] = LowerCase[j]
                          ELSE out[k] = text[i + k - 1]

\* C5 witness: a reply of "code" wrapped in whitespace and capitals gave "code"
C5_Witness ==
    /\ ret.op = "analyze_query"
    /\ ret.arg[1] = GeminiSuccess(<<" ","C","o","d","e","\n">>)
    /\ ret.value = code

\* C5, the other case: the gateway's error gave "concept"
C5_WitnessError ==
    /\ ret.op = "analyze_query"
    /\ ret.arg[1] = GeminiError
    /\ ret.value = concept

\* C6: an upload of a supported kind whose decoding succeeds adds exactly one
\* documents row holding the decoded content and puts the session into
\* Document mode with that row as the current document.
C6_UploadCreates ==
    [][(/\ ret'.op = "upload"
        /\ uploaded_file = NoFile
        /\ uploaded_file' # NoFile
        /\ FileType(uploaded_file') \in SupportedTypes
        /\ uploaded_file'.decoded # Raises) =>
           \E d \in documents' \ documents :
               /\ documents' = documents \cup {d}
               /\ d.content = uploaded_file'.decoded
               /\ d.filename = uploaded_file'.name
               /\ doc_content' = uploaded_file'.decoded
               /\ current_doc_id' = d.id]_vars

\* C7: a question whose model call succeeds is saved under the session's
\* current document (document_id null in Query mode, the current document's
\* id in Document mode), and asking changes neither the mode nor the current
\* document.
C7_Owner ==
    [][IsAsk(ret'.op) =>
          /\ <<doc_content, doc_type, file_name, current_doc_id>>' =
                 <<doc_content, doc_type, file_name, current_doc_id>>
          /\ ret'.value = TRUE =>
                 \E q \in queries' \ queries :
                     IF DocumentMode
                     THEN ret'.op = "ask_document" /\ current_doc_id # NoneId
                          /\ q.document_id = current_doc_id
                     ELSE ret'.op = "ask_query" /\ q.document_id = NoneId]_vars

\* C7 witness: in Document mode, the answer to a question was saved under the
\* current document's id
C7_Witness ==
    /\ ret.op = "ask_document"
    /\ ret.value = TRUE
    /\ DocumentMode
    /\ \E q \in queries : q.id = seq_queries /\ q.document_id = current_doc_id
                          /\ q.document_id # NoneId

\* C7, the other case: in Query mode the answer was saved with no owner
C7_WitnessStandalone ==
    /\ ret.op = "ask_query"
    /\ ret.value = TRUE
    /\ ~DocumentMode
    /\ \E q \in queries : q.id = seq_queries /\ q.document_id = NoneId

\* C8: on both question paths, an answering call that returns error leaves the
\* queries table unchanged, and one that succeeds inserts exactly one row, with
\* the query text asked and the content of the response.
C8_SavedOnSuccess ==
    [][IsAsk(ret'.op) =>
          LET query == ret'.arg[1]
              response == ret'.arg[2]
          IN IF response.status = "success"
             THEN \E q \in queries' \ queries :
                      /\ queries' = queries \cup {q}
                      /\ q.query_text = query
                      /\ q.response_text = response.content
             ELSE queries' = queries]_vars

\* C8 witness: an answering call failed and no row was written
C8_Witness ==
    /\ IsAsk(ret.op)
    /\ ret.arg[2].status = "error"
    /\ queries = {}
    /\ seq_queries = 0
    /\ screen.agent # NoneStr

\* C8, the other case: an answering call succeeded and its row is there
C8_WitnessSaved ==
    /\ IsAsk(ret.op)
    /\ ret.arg[2].status = "success"
    /\ \E q \in queries : q.id = seq_queries /\ q.response_text = ret.arg[2].content

\* C9: "back", or a successful deletion of the current document, clears
\* doc_content, doc_type, file_name and current_doc_id, so that the next run
\* shows Query mode; deleting another document leaves the four unchanged.
C9_BackToQueryMode ==
    [][/\ ret'.op = "back" =>
              /\ doc_content' = NoneContent
              /\ doc_type' = NoneStr
              /\ file_name' = NoneStr
              /\ current_doc_id' = NoneId
              /\ pc' = "rerun"
       /\ ret'.op = "delete_document" =>
              IF ret'.value = TRUE /\ ret'.arg[1] = current_doc_id
              THEN /\ doc_content' = NoneContent
                   /\ doc_type' = NoneStr
                   /\ file_name' = NoneStr
                   /\ current_doc_id' = NoneId
              ELSE <<doc_content, doc_type, file_name, current_doc_id>>' =
                       <<doc_content, doc_type, file_name, current_doc_id>>
       /\ (pc = "rerun" /\ doc_content = NoneContent /\ pc' = "idle") =>
              screen'.view = "query"]_vars

\* C9 witness: after "back" the page rendered is the query interface and no
\* document is current
C9_Witness ==
    /\ pc = "idle"
    /\ screen.view = "query"
    /\ ret.op = "render"
    /\ seq_documents > 0
    /\ documents # {}
    /\ doc_content = NoneContent
    /\ doc_type = NoneStr
    /\ file_name = NoneStr
    /\ current_doc_id = NoneId

\* C9, the step itself: "back" was pressed
C9_WitnessBack == ret.op = "back" /\ pc = "rerun" /\ ~DocumentMode

\* C9, the other case: a document that is not the current one was deleted
C9_WitnessDelete == ret.op = "delete_document" /\ ret.value = TRUE /\ ~DocumentMode

\* C11: get_recent_queries(document_id, n), n >= 0, returns min(n, number of
\* queries in scope) rows, hence at most n, sorted by created_at descending,
\* where the scope is the queries of that document when document_id is given
\* and every query (of any document, or standalone) when it is absent; every
\* returned row is a row of the scope, no omitted row of the scope is newer
\* than a returned one, and the call changes no row.
C11_RecentQueries ==
    [][ret'.op = "get_recent_queries" =>
          LET D == ret'.arg[1]
              n == ret'.arg[2]
              r == ret'.value
              scope == IF D # NoneId THEN RefsTo(queries, D) ELSE queries
              returned == {r[i].id : i \in 1..Len(r)}
          IN /\ Len(r) <= n
             /\ Len(r) = Min(n, Cardinality(scope))
             /\ \A i \in 1..Len(r) : \E q \in scope :
                    /\ q.id = r[i].id
                    /\ q.created_at = r[i].created_at
                    /\ q.query_text = r[i].query_text
                    /\ q.response_text = r[i].response_text
                    /\ q.agent_type = r[i].agent_type
             /\ \A i, j \in 1..Len(r) : i # j => r[i].id # r[j].id
             /\ \A i, j \in 1..Len(r) : i < j => r[i].created_at >= r[j].created_at
             /\ \A q \in scope : q.id \notin returned =>
                    \A i \in 1..Len(r) : q.created_at <= r[i].created_at
             /\ UNCHANGED store]_vars

\* C11 witness: with a document id, the document's one query was returned
\* and a newer query that is not the document's was left out
C11_Witness ==
    /\ ret.op = "get_recent_queries"
    /\ ret.arg[1] # NoneId
    /\ ret.arg[2] >= 1
    /\ Len(ret.value) = 1
    /\ \E q \in queries : /\ q.document_id # ret.arg[1]
                           /\ q.created_at > ret.value[1].created_at

\* C11, with a document id and a limit of 1: the document's newer query was
\* returned and its older query left out
C11_WitnessLimit ==
    /\ ret.op = "get_recent_queries"
    /\ ret.arg[1] # NoneId
    /\ ret.arg[2] = 1
    /\ Len(ret.value) = 1
    /\ \E q \in RefsTo(queries, ret.arg[1]) : q.created_at < ret.value[1].created_at

\* C11, the other case: with no document id, the newest query over standalone
\* queries and queries of documents was returned and an older one left out
C11_WitnessAll ==
    /\ ret.op = "get_recent_queries"
    /\ ret.arg[1] = NoneId
    /\ ret.arg[2] = 1
    /\ Len(ret.value) = 1
    /\ \E q \in queries : q.document_id = NoneId
    /\ \E q \in queries : q.document_id # NoneId
    /\ \E q \in queries : q.created_at < ret.value[1].created_at

IsImageType(t) == t \in {jpg, jpeg, png}
InputError(f) == FileType(f) \notin SupportedTypes \/ f.decoded = Raises

\* C12: an upload whose file has an unsupported extension, or whose bytes
\* cannot be read or decoded, inserts no documents row and changes no table,
\* leaves doc_content, doc_type, file_name and current_doc_id (hence the mode)
\* as they were, shows the error string (st.error) on the query interface,
\* and leaves the script waiting for the next widget event; in the state
\* after such an upload the user can still act (remove the file from the
\* uploader).
C12_InputErrorNoMutation ==
    /\ [][(ret'.op = "upload" /\ InputError(uploaded_file')) =>
              /\ UNCHANGED store
              /\ UNCHANGED session
              /\ ret'.value = NoneId
              /\ screen'.view = "query"
              /\ screen'.error =
                     (IF FileType(uploaded_file') \notin SupportedTypes THEN ErrUnsupported
                      ELSE IF IsImageType(FileType(uploaded_file')) THEN ErrProcessingImage
                      ELSE ErrReadingFile)
              /\ pc' = "idle"]_vars
    /\ []((ret.op = "upload" /\ InputError(uploaded_file)) => ENABLED ClearUpload)

\* C12 witness: with a document in the store, a text file that is not UTF-8
\* was uploaded; the error is on the screen and the session is in Query mode
C12_Witness ==
    /\ ret.op = "upload"
    /\ uploaded_file = File(c_txt, Raises)
    /\ screen.error = ErrReadingFile
    /\ documents # {}
    /\ ~DocumentMode
    /\ pc = "idle"

\* C12, the other kinds of input error: an unsupported extension, a corrupt image
C12_WitnessUnsupported ==
    /\ ret.op = "upload"
    /\ uploaded_file = File(d_exe, Bytes(PngBytes))
    /\ screen.error = ErrUnsupported

C12_WitnessImage ==
    /\ ret.op = "upload"
    /\ uploaded_file = File(f_jpg, Raises)
    /\ screen.error = ErrProcessingImage

\* C12, the session goes on: with the failed file still in the uploader, a
\* recent document was opened
C12_WitnessGoesOn ==
    /\ ret.op = "click_document"
    /\ InputError(uploaded_file)
    /\ uploaded_file # NoFile
    /\ DocumentMode

\* C13: whenever process_uploaded_file returns after it created its temporary
\* file (the decode succeeded or failed, or an exception was raised by the
\* write of the uploaded bytes, by the delete or by the store insert), that
\* temporary file no longer exists.
C13_TmpReleased ==
    (ret.op = "process_uploaded_file" /\ pc = "idle" /\ ret.path # NoneId) =>
        ret.path \notin tmp_files

\* what get_document(D) on the existing document D does to the tables and
\* returns: last_accessed of row D becomes the current time, nothing else
\* changes, and the row read is returned
GetDocumentTouches(D) ==
    /\ documents' = {IF d.id = D THEN [d EXCEPT !.last_accessed = now] ELSE d : d \in documents}
    /\ UNCHANGED <<document_analysis, queries, seq_documents, seq_analysis, seq_queries>>
    /\ ret'.value = {d \in documents : d.id = D}
    /\ \A d \in documents' : d.id = D =>
           \A o \in documents' : o.last_accessed <= d.last_accessed

\* the step is a call get_document(D) (the clock does not move within a call)
IsGetDocument(D) == ret'.op = "get_document" /\ ret'.arg = <<D>> /\ now' = now

\* D is a row of the result r of get_recent_documents
InRecent(D, r) == \E i \in 1..Len(r) : r[i].id = D

\* the documents whose last_accessed is that of document D
AccessedWith(docs, D) ==
    {o \in docs : \E d \in docs : d.id = D /\ o.last_accessed = d.last_accessed}

\* C14 as stated: get_document(D) on an existing document sets D's
\* last_accessed to the current time and changes nothing else, no other
\* document then has a later last_accessed, and D is in the result of
\* get_recent_documents(n) for every n >= 1; on an id with no row it returns
\* nothing and changes nothing.
C14_Stated ==
    [][\A D \in DocIds : IsGetDocument(D) =>
          IF \E d \in documents : d.id = D
          THEN /\ GetDocumentTouches(D)
               /\ \A n \in 1..MaxLimit : \A r \in RecentDocuments(documents', n) :
                      InRecent(D, r)
          ELSE ret'.value = {} /\ UNCHANGED store]_vars

\* C14 amended: get_document(D) on an existing document sets D's
\* last_accessed to the current time and changes nothing else, and no other
\* document then has a later last_accessed; D is in the result of
\* get_recent_documents(n) for every n that is at least the number of
\* documents last accessed in that same second (for every n >= 1 when D is
\* the only one), and for smaller n >= 1 it is in one of the results the
\* ordering allows; on an id with no row the call returns nothing and changes
\* nothing.
C14_LastAccessed ==
    [][\A D \in DocIds : IsGetDocument(D) =>
          IF \E d \in documents : d.id = D
          THEN /\ GetDocumentTouches(D)
               /\ \A n \in 1..MaxLimit :
                      /\ \E r \in RecentDocuments(documents', n) : InRecent(D, r)
                      /\ n >= Cardinality(AccessedWith(documents', D)) =>
                             \A r \in RecentDocuments(documents', n) : InRecent(D, r)
          ELSE ret'.value = {} /\ UNCHANGED store]_vars

\* C14 witness: the document read had been accessed before the current
\* second, it now carries the current time, and the other document is older
C14_Witness ==
    /\ ret.op = "get_document"
    /\ \E old \in ret.value : \E d \in documents :
           /\ d.id = old.id
           /\ old.last_accessed < d.last_accessed
           /\ d.last_accessed = now
           /\ \E o \in documents : o.id # d.id /\ o.last_accessed < d.last_accessed

\* C14, two documents accessed in the same second: the one read last need
\* not be the one get_recent_documents(1) returns
C14_WitnessTie ==
    /\ ret.op = "get_document"
    /\ ret.value # {}
    /\ Cardinality(AccessedWith(documents, ret.arg[1])) > 1

\* C14, the other case: the id has no row, nothing is returned
C14_WitnessAbsent ==
    /\ ret.op = "get_document"
    /\ ret.value = {}
    /\ documents # {}

\* C15: in every state of a session (after any sequence of uploads, history
\* selections, back actions, questions and deletions), if the session is in
\* Document mode then current_doc_id is set and names a documents row that
\* exists, and doc_content, doc_type and file_name are that row's content,
\* file_type and filename.
C15_SessionConsistent ==
    DocumentMode =>
        /\ current_doc_id # NoneId
        /\ \E d \in documents :
               /\ d.id = current_doc_id
               /\ d.content = doc_content
               /\ d.file_type = doc_type
               /\ d.filename = file_name

\* C15 witness: after two uploads and the deletion of the second, the first
\* was selected from the history and is shown by the Document Analyzer
C15_Witness ==
    /\ DocumentMode
    /\ ret.op = "render_document"
    /\ screen.doc = current_doc_id
    /\ current_doc_id < seq_documents
    /\ Cardinality(documents) < seq_documents

====
